---- MODULE Spec2Model ----
(***************************************************************************)
(* R1CS gadgets for short Weierstrass curve points (ark-r1cs-std):          *)
(* ProjectiveVar with the complete Renes-Costello-Batina formulae, the      *)
(* allocation checks and scalar_mul_le, over small instances of the curve   *)
(* parameter pack P (base field F_q, COEFF_A, COEFF_B, scalar field order   *)
(* r, COFACTOR h).                                                          *)
(*                                                                          *)
(* A field variable is modelled by the value the honest assignment gives    *)
(* it; a point variable carries the flag c = is_constant().  `sat` records  *)
(* whether every constraint emitted so far is satisfied by the assignment.  *)
(***************************************************************************)
EXTENDS Integers, Sequences, FiniteSets, TLC

VARIABLES
    curve,   \* the parameter pack P: [q, a, b, r, h]
    pc,      \* position of the running gadget call
    regs,    \* the circuit author's point variables: <<ProjectiveVar, ProjectiveVar>>
    out,     \* what the last gadget call returned
    frame,   \* the locals of the running gadget call
    sat,     \* every emitted constraint is satisfied by the assignment
    emitted  \* some constraint has been emitted

vars == <<curve, pc, regs, out, frame, sat, emitted>>

----------------------------------------------------------------------------
(* Base field BF<P> = F_q *)

Fq == 0 .. (curve.q - 1)

FAdd(u, v) == (u + v) % curve.q
FSub(u, v) == (u - v) % curve.q
FMul(u, v) == (u * v) % curve.q
FNeg(u) == (0 - u) % curve.q
FDouble(u) == (u + u) % curve.q
FSquare(u) == (u * u) % curve.q

\* Field::inverse().unwrap_or_else(zero)
FInvOrZero(u) == IF u = 0 THEN 0 ELSE CHOOSE w \in Fq : (u * w) % curve.q = 1

COEFF_A == curve.a
COEFF_B == curve.b

----------------------------------------------------------------------------
(* Native curve arithmetic (SWAffine / SWProjective values) *)

NativeZero == [x |-> 0, y |-> 1, infinity |-> TRUE]

NativeNew(x, y) == [x |-> x, y |-> y, infinity |-> FALSE]

NativeOnCurve(g) ==
    g.infinity \/ FSquare(g.y) = FAdd(FAdd(FMul(FSquare(g.x), g.x), FMul(COEFF_A, g.x)), COEFF_B)

NativeNeg(g) == IF g.infinity THEN g ELSE NativeNew(g.x, FNeg(g.y))

NativeAdd(g1, g2) ==
    IF g1.infinity THEN g2
    ELSE IF g2.infinity THEN g1
    ELSE IF g1.x = g2.x /\ FAdd(g1.y, g2.y) = 0 THEN NativeZero
    ELSE LET lambda == IF g1.x = g2.x
                       THEN FMul(FAdd(FMul(3, FSquare(g1.x)), COEFF_A), FInvOrZero(FDouble(g1.y)))
                       ELSE FMul(FSub(g2.y, g1.y), FInvOrZero(FSub(g2.x, g1.x)))
             x3 == FSub(FSub(FSquare(lambda), g1.x), g2.x)
             y3 == FSub(FMul(lambda, FSub(g1.x, x3)), g1.y)
         IN NativeNew(x3, y3)

RECURSIVE NativeMul(_, _)
NativeMul(k, g) ==
    IF k = 0 THEN NativeZero
    ELSE LET rest == NativeMul(k - 1, g) IN NativeAdd(g, rest)

\* All native points of the curve, and those of the prime-order subgroup.
NativePoints ==
    {NativeZero} \cup {g \in {NativeNew(x, y) : x \in Fq, y \in Fq} : NativeOnCurve(g)}

PrimeOrderPoints == {g \in NativePoints : NativeMul(curve.r, g) = NativeZero}

----------------------------------------------------------------------------
(* ProjectiveVar *)

Proj(x, y, z, c) == [x |-> x, y |-> y, z |-> z, c |-> c]

\* R1CSVar::value
value(this) ==
    IF this.z # 0
    THEN NativeNew(FMul(this.x, FInvOrZero(this.z)), FMul(this.y, FInvOrZero(this.z)))
    ELSE NativeZero

\* CurveVar::zero
zero == Proj(0, 1, 0, TRUE)

\* ProjectiveVar::new_variable_omit_on_curve_check: the triple allocated for
\* the native value g in the given mode.
new_variable_omit_on_curve_check(g, mode) ==
    IF g.infinity
    THEN Proj(0, 1, 0, mode = "Constant")
    ELSE Proj(g.x, g.y, 1, mode = "Constant")

\* CurveVar::constant
constant(g) == new_variable_omit_on_curve_check(g, "Constant")

\* mutant: the test on COEFF_A inverted
mul_by_coeff_a_inverted(f) == IF COEFF_A = 0 THEN FMul(f, COEFF_A) ELSE 0

mul_by_coeff_a(f) == IF COEFF_A # 0 THEN FMul(f, COEFF_A) ELSE 0

three_b == FAdd(FDouble(COEFF_B), COEFF_B)

\* Mixed addition (Algorithm 2): other = (x2, y2) is a NonZeroAffineVar.
add_mixed(this, x2, y2, c2) ==
    LET x1 == this.x
        y1 == this.y
        z1 == this.z
        xx == FMul(x1, x2)
        yy == FMul(y1, y2)
        xy_pairs == FSub(FMul(FAdd(x1, y1), FAdd(x2, y2)), FAdd(xx, yy))
        xz_pairs == FAdd(FMul(x2, z1), x1)
        yz_pairs == FAdd(FMul(y2, z1), y1)
        axz == mul_by_coeff_a(xz_pairs)
        bz3_part == FAdd(axz, FMul(z1, three_b))
        yy_m_bz3 == FSub(yy, bz3_part)
        yy_p_bz3 == FAdd(yy, bz3_part)
        azz == mul_by_coeff_a(z1)
        xx3_p_azz == FAdd(FAdd(FDouble(xx), xx), azz)
        bxz3 == FMul(xz_pairs, three_b)
        b3_xz_pairs == FAdd(mul_by_coeff_a(FSub(xx, azz)), bxz3)
        x == FSub(FMul(yy_m_bz3, xy_pairs), FMul(yz_pairs, b3_xz_pairs))
        y == FAdd(FMul(yy_p_bz3, yy_m_bz3), FMul(xx3_p_azz, b3_xz_pairs))
        z == FAdd(FMul(yy_p_bz3, yz_pairs), FMul(xy_pairs, xx3_p_azz))
    IN Proj(x, y, z, this.c /\ c2)

\* mutant: xz_pairs subtracts yy where it must subtract zz
add_complete_xz_typo(this, other) ==
    LET x1 == this.x
        y1 == this.y
        z1 == this.z
        x2 == other.x
        y2 == other.y
        z2 == other.z
        xx == FMul(x1, x2)
        yy == FMul(y1, y2)
        zz == FMul(z1, z2)
        xy_pairs == FSub(FMul(FAdd(x1, y1), FAdd(x2, y2)), FAdd(xx, yy))
        xz_pairs == FSub(FMul(FAdd(x1, z1), FAdd(x2, z2)), FAdd(xx, yy))
        yz_pairs == FSub(FMul(FAdd(y1, z1), FAdd(y2, z2)), FAdd(yy, zz))
        axz == mul_by_coeff_a(xz_pairs)
        bzz3_part == FAdd(axz, FMul(zz, three_b))
        yy_m_bzz3 == FSub(yy, bzz3_part)
        yy_p_bzz3 == FAdd(yy, bzz3_part)
        azz == mul_by_coeff_a(zz)
        xx3_p_azz == FAdd(FAdd(FDouble(xx), xx), azz)
        bxz3 == FMul(xz_pairs, three_b)
        b3_xz_pairs == FAdd(mul_by_coeff_a(FSub(xx, azz)), bxz3)
        x == FSub(FMul(yy_m_bzz3, xy_pairs), FMul(yz_pairs, b3_xz_pairs))
        y == FAdd(FMul(yy_p_bzz3, yy_m_bzz3), FMul(xx3_p_azz, b3_xz_pairs))
        z == FAdd(FMul(yy_p_bzz3, yz_pairs), FMul(xy_pairs, xx3_p_azz))
    IN Proj(x, y, z, FALSE)

\* Complete addition (Algorithm 1): the last branch of Add.
add_complete(this, other) ==
    LET x1 == this.x
        y1 == this.y
        z1 == this.z
        x2 == other.x
        y2 == other.y
        z2 == other.z
        xx == FMul(x1, x2)
        yy == FMul(y1, y2)
        zz == FMul(z1, z2)
        xy_pairs == FSub(FMul(FAdd(x1, y1), FAdd(x2, y2)), FAdd(xx, yy))
        xz_pairs == FSub(FMul(FAdd(x1, z1), FAdd(x2, z2)), FAdd(xx, zz))
        yz_pairs == FSub(FMul(FAdd(y1, z1), FAdd(y2, z2)), FAdd(yy, zz))
        axz == mul_by_coeff_a(xz_pairs)
        bzz3_part == FAdd(axz, FMul(zz, three_b))
        yy_m_bzz3 == FSub(yy, bzz3_part)
        yy_p_bzz3 == FAdd(yy, bzz3_part)
        azz == mul_by_coeff_a(zz)
        xx3_p_azz == FAdd(FAdd(FDouble(xx), xx), azz)
        bxz3 == FMul(xz_pairs, three_b)
        b3_xz_pairs == FAdd(mul_by_coeff_a(FSub(xx, azz)), bxz3)
        x == FSub(FMul(yy_m_bzz3, xy_pairs), FMul(yz_pairs, b3_xz_pairs))
        y == FAdd(FMul(yy_p_bzz3, yy_m_bzz3), FMul(xx3_p_azz, b3_xz_pairs))
        z == FAdd(FMul(yy_p_bzz3, yz_pairs), FMul(xy_pairs, xx3_p_azz))
    IN Proj(x, y, z, FALSE)

\* mutant: a constant operand's stored coordinates are taken as its affine
\* coordinates, without normalizing by z
add_constant_raw_coordinates(this, other) ==
    IF this.c
    THEN IF value(this).infinity
         THEN other
         ELSE add_mixed(other, this.x, this.y, TRUE)
    ELSE IF other.c
    THEN IF ~value(other).infinity
         THEN add_mixed(this, other.x, other.y, TRUE)
         ELSE this
    ELSE add_complete(this, other)

\* impl_bounded_ops! Add: this + other, with the special cases for constants.
add(this, other) ==
    IF this.c
    THEN IF value(this).infinity
         THEN other
         ELSE add_mixed(other, value(this).x, value(this).y, TRUE)
    ELSE IF other.c
    THEN IF ~value(other).infinity
         THEN add_mixed(this, value(other).x, value(other).y, TRUE)
         ELSE this
    ELSE add_complete(this, other)

\* CurveVar::negate
negate(this) == Proj(this.x, FNeg(this.y), this.z, this.c)

\* impl_bounded_ops! Sub
sub(this, other) == add(this, negate(other))

\* mutant: z is doubled once where it must be doubled twice
double_in_place_z_doubled_once(this) ==
    LET xx == FSquare(this.x)
        yy == FSquare(this.y)
        zz == FSquare(this.z)
        xy2 == FDouble(FMul(this.x, this.y))
        xz2 == FDouble(FMul(this.x, this.z))
        axz2 == mul_by_coeff_a(xz2)
        bzz3_part == FAdd(axz2, FMul(zz, three_b))
        yy_m_bzz3 == FSub(yy, bzz3_part)
        yy_p_bzz3 == FAdd(yy, bzz3_part)
        y_frag == FMul(yy_p_bzz3, yy_m_bzz3)
        x_frag == FMul(yy_m_bzz3, xy2)
        bxz3 == FMul(xz2, three_b)
        azz == mul_by_coeff_a(zz)
        b3_xz_pairs == FAdd(mul_by_coeff_a(FSub(xx, azz)), bxz3)
        xx3_p_azz == FMul(FAdd(FAdd(FDouble(xx), xx), azz), b3_xz_pairs)
        y == FAdd(y_frag, xx3_p_azz)
        yz2 == FDouble(FMul(this.y, this.z))
        x == FSub(x_frag, FMul(b3_xz_pairs, yz2))
        z == FDouble(FMul(yz2, yy))
    IN Proj(x, y, z, this.c)

\* CurveVar::double_in_place (Algorithm 3)
double_in_place(this) ==
    LET xx == FSquare(this.x)
        yy == FSquare(this.y)
        zz == FSquare(this.z)
        xy2 == FDouble(FMul(this.x, this.y))
        xz2 == FDouble(FMul(this.x, this.z))
        axz2 == mul_by_coeff_a(xz2)
        bzz3_part == FAdd(axz2, FMul(zz, three_b))
        yy_m_bzz3 == FSub(yy, bzz3_part)
        yy_p_bzz3 == FAdd(yy, bzz3_part)
        y_frag == FMul(yy_p_bzz3, yy_m_bzz3)
        x_frag == FMul(yy_m_bzz3, xy2)
        bxz3 == FMul(xz2, three_b)
        azz == mul_by_coeff_a(zz)
        b3_xz_pairs == FAdd(mul_by_coeff_a(FSub(xx, azz)), bxz3)
        xx3_p_azz == FMul(FAdd(FAdd(FDouble(xx), xx), azz), b3_xz_pairs)
        y == FAdd(y_frag, xx3_p_azz)
        yz2 == FDouble(FMul(this.y, this.z))
        x == FSub(x_frag, FMul(b3_xz_pairs, yz2))
        z == FDouble(FDouble(FMul(yz2, yy)))
    IN Proj(x, y, z, this.c)

\* CondSelectGadget::conditionally_select; cond = [v, c] is a Boolean.
conditionally_select(cond, true_value, false_value) ==
    IF cond.c
    THEN (IF cond.v THEN true_value ELSE false_value)
    ELSE LET t == IF cond.v THEN true_value ELSE false_value
         IN Proj(t.x, t.y, t.z, FALSE)

\* mutant: the y coordinates left out of the comparison
is_eq_x_only(this, other) ==
    LET x_equal == FMul(this.x, other.z) = FMul(other.x, this.z)
        both_are_zero == (this.z = 0) /\ (other.z = 0)
    IN both_are_zero \/ x_equal

\* EqGadget::is_eq (the value of the returned Boolean)
is_eq(this, other) ==
    LET x_equal == FMul(this.x, other.z) = FMul(other.x, this.z)
        y_equal == FMul(this.y, other.z) = FMul(other.y, this.z)
        coordinates_equal == x_equal /\ y_equal
        both_are_zero == (this.z = 0) /\ (other.z = 0)
    IN both_are_zero \/ coordinates_equal

\* mutant: the coefficients a and b exchanged in the on-curve check
on_curve_check_swapped_coeffs(g) ==
    LET x2 == FSquare(g.x)
        y2 == FSquare(g.y)
        z2 == FSquare(g.z)
        t == FMul(g.x, FAdd(x2, FMul(z2, COEFF_B)))
    IN FMul(g.z, FSub(y2, FMul(z2, COEFF_A))) = t

\* The constraint of new_variable_omit_prime_order_check on the triple g:
\* z * (y^2 - b z^2) = x * (x^2 + a z^2).
on_curve_check(g) ==
    LET x2 == FSquare(g.x)
        y2 == FSquare(g.y)
        z2 == FSquare(g.z)
        t == FMul(g.x, FAdd(x2, FMul(z2, COEFF_A)))
    IN FMul(g.z, FSub(y2, FMul(z2, COEFF_B))) = t

\* mutant: the on-curve check emitted in every mode, Constant included
new_variable_omit_prime_order_check_any_mode(g, mode) ==
    LET var == new_variable_omit_on_curve_check(g, mode)
    IN [var |-> var, ok |-> on_curve_check(var), emitted |-> TRUE]

\* CurveVar::new_variable_omit_prime_order_check: the variable and whether
\* the constraints it emits are satisfied.
new_variable_omit_prime_order_check(g, mode) ==
    LET var == new_variable_omit_on_curve_check(g, mode)
    IN [var |-> var,
        ok |-> IF mode # "Constant" THEN on_curve_check(var) ELSE TRUE,
        emitted |-> mode # "Constant"]

----------------------------------------------------------------------------
(* Predicates on triples used by the properties *)

\* Y^2 Z = X^3 + a X Z^2 + b Z^3
OnProjectiveCurve(t) ==
    FMul(FSquare(t.y), t.z)
      = FAdd(FAdd(FMul(FSquare(t.x), t.x), FMul(COEFF_A, FMul(t.x, FSquare(t.z)))),
             FMul(COEFF_B, FMul(FSquare(t.z), t.z)))

\* a projective point of the curve: on the equation and not (0,0,0)
ValidTriple(t) == OnProjectiveCurve(t) /\ ~(t.x = 0 /\ t.y = 0 /\ t.z = 0)

----------------------------------------------------------------------------------------------------------------------------------------
(* The circuit author's session: two point variables and the operations    *)
(* of the upward interface applied to them in any order.                   *)

\* Instances of the parameter pack: y^2 = x^3 + a x + b over F_q, with r the
\* prime order of the subgroup and h the cofactor (#E = h * r).
SessionCurves ==
    { [q |-> 5, a |-> 2, b |-> 1, r |-> 7, h |-> 1],
      [q |-> 5, a |-> 0, b |-> 1, r |-> 3, h |-> 2] }

Modes == {"Constant", "Input", "Witness"}
Booleans == [v : BOOLEAN, c : BOOLEAN]
Reg == {1, 2}
NoFrame == <<>>
NoOut == [op |-> "none"]

Init ==
    /\ curve \in SessionCurves
    /\ pc = "session"
    /\ regs = <<zero, zero>>
    /\ out = NoOut
    /\ frame = NoFrame
    /\ sat = TRUE
    /\ emitted = FALSE

\* regs[i] = ProjectiveVar::constant(g)
Constant(i) ==
    \E g \in NativePoints :
        /\ regs' = [regs EXCEPT ![i] = constant(g)]
        /\ UNCHANGED <<curve, pc, out, frame, sat, emitted>>

\* regs[i] = ProjectiveVar::zero()
Zero(i) ==
    /\ regs' = [regs EXCEPT ![i] = zero]
    /\ UNCHANGED <<curve, pc, out, frame, sat, emitted>>

\* regs[i] = new_variable_omit_prime_order_check(cs, || Ok(g), mode)
Allocate(i) ==
    \E g \in NativePoints, mode \in Modes :
        LET res == new_variable_omit_prime_order_check(g, mode)
        IN /\ regs' = [regs EXCEPT ![i] = res.var]
           /\ sat' = (sat /\ res.ok)
           /\ emitted' = (emitted \/ res.emitted)
           /\ UNCHANGED <<curve, pc, out, frame>>

\* regs[i] += &regs[j]
Add(i, j) ==
    /\ regs' = [regs EXCEPT ![i] = add(regs[i], regs[j])]
    /\ UNCHANGED <<curve, pc, out, frame, sat, emitted>>

\* regs[i] -= &regs[j]
Sub(i, j) ==
    /\ regs' = [regs EXCEPT ![i] = sub(regs[i], regs[j])]
    /\ UNCHANGED <<curve, pc, out, frame, sat, emitted>>

\* regs[i] = regs[i].negate()
Negate(i) ==
    /\ regs' = [regs EXCEPT ![i] = negate(regs[i])]
    /\ UNCHANGED <<curve, pc, out, frame, sat, emitted>>

\* regs[i].double_in_place()
Double(i) ==
    /\ regs' = [regs EXCEPT ![i] = double_in_place(regs[i])]
    /\ UNCHANGED <<curve, pc, out, frame, sat, emitted>>

\* regs[i] = cond.select(&regs[i], &regs[j])
Select(i, j) ==
    \E cond \in Booleans :
        /\ regs' = [regs EXCEPT ![i] = conditionally_select(cond, regs[i], regs[j])]
        /\ UNCHANGED <<curve, pc, out, frame, sat, emitted>>

Next ==
    \/ \E i \in Reg : Constant(i)
    \/ \E i \in Reg : Zero(i)
    \/ \E i \in Reg : Allocate(i)
    \/ \E i \in Reg, j \in Reg : Add(i, j)
    \/ \E i \in Reg, j \in Reg : Sub(i, j)
    \/ \E i \in Reg : Negate(i)
    \/ \E i \in Reg : Double(i)
    \/ \E i \in Reg, j \in Reg : Select(i, j)

Spec == Init /\ [][Next]_vars

----------------------------------------------------------------------------
(* One call of an operator of the upward interface on two point variables  *)
(* holding any valid triples (a prover may assign any representative).     *)

\* odd order 7; a = 0 and order 6; order 12 with points of order 2 and 4
PairCurves ==
    { [q |-> 5, a |-> 2, b |-> 1, r |-> 7, h |-> 1],
      [q |-> 5, a |-> 0, b |-> 1, r |-> 3, h |-> 2],
      [q |-> 7, a |-> 3, b |-> 1, r |-> 3, h |-> 4] }

ValidVars ==
    {t \in [x : Fq, y : Fq, z : Fq, c : BOOLEAN] : ValidTriple(t)}

InitPair ==
    /\ curve \in PairCurves
    /\ pc = "args"
    /\ regs \in ValidVars \X ValidVars
    /\ out = NoOut
    /\ frame = NoFrame
    /\ sat = TRUE
    /\ emitted = FALSE

\* &regs[1] + &regs[2]
CallAdd ==
    /\ pc = "args"
    /\ pc' = "returned"
    /\ out' = [op |-> "add", res |-> add(regs[1], regs[2])]
    /\ UNCHANGED <<curve, regs, frame, sat, emitted>>

\* &regs[1] - &regs[2]
CallSub ==
    /\ pc = "args"
    /\ pc' = "returned"
    /\ out' = [op |-> "sub", res |-> sub(regs[1], regs[2])]
    /\ UNCHANGED <<curve, regs, frame, sat, emitted>>

\* regs[1].double()
CallDouble ==
    /\ pc = "args"
    /\ pc' = "returned"
    /\ out' = [op |-> "double", res |-> double_in_place(regs[1])]
    /\ UNCHANGED <<curve, regs, frame, sat, emitted>>

\* regs[1].negate()
CallNegate ==
    /\ pc = "args"
    /\ pc' = "returned"
    /\ out' = [op |-> "negate", res |-> negate(regs[1])]
    /\ UNCHANGED <<curve, regs, frame, sat, emitted>>

\* regs[1].is_eq(&regs[2])
CallIsEq ==
    /\ pc = "args"
    /\ pc' = "returned"
    /\ out' = [op |-> "is_eq",
               b |-> [v |-> is_eq(regs[1], regs[2]), c |-> regs[1].c /\ regs[2].c]]
    /\ UNCHANGED <<curve, regs, frame, sat, emitted>>

\* regs[1].conditional_enforce_equal(&regs[2], &condition): the Boolean of the
\* comparison is enforced to be true under the condition.  The constraint is
\* placed in the constraint system of a variable among the operands and the
\* condition.
CallConditionalEnforceEqual ==
    /\ pc = "args"
    /\ \E condition \in Booleans :
          /\ ~(regs[1].c /\ regs[2].c /\ condition.c)
          /\ LET both_are_zero == (regs[1].z = 0) /\ (regs[2].z = 0)
                 x_equal == FMul(regs[1].x, regs[2].z) = FMul(regs[2].x, regs[1].z)
                 y_equal == FMul(regs[1].y, regs[2].z) = FMul(regs[2].y, regs[1].z)
                 coordinates_equal == x_equal /\ y_equal
                 enforced == both_are_zero \/ coordinates_equal
             IN sat' = (sat /\ (condition.v => enforced))
          /\ out' = [op |-> "conditional_enforce_equal", condition |-> condition]
    /\ emitted' = TRUE
    /\ pc' = "returned"
    /\ UNCHANGED <<curve, regs, frame>>

NextPair ==
    \/ CallAdd
    \/ CallSub
    \/ CallDouble
    \/ CallNegate
    \/ CallIsEq
    \/ CallConditionalEnforceEqual

SpecPair == InitPair /\ [][NextPair]_vars

----------------------------------------------------------------------------
(* Allocation: new_variable_omit_prime_order_check and AllocVar::new_variable *)

\* Width of a limb of P::COFACTOR (u64 in the code, scaled down here).
LimbBits == 2

LimbBase == 2 ^ LimbBits

\* The little-endian limbs of n (P::COFACTOR.to_vec()), two limbs.
Limbs(n) == <<n % LimbBase, (n \div LimbBase) % LimbBase>>

LimbsValue(limbs) == limbs[1] + LimbBase * limbs[2]

\* mutant: the bit shifted out of the upper limb is dropped
div2_no_carry(limbs) == <<limbs[1] \div 2, limbs[2] \div 2>>

\* div2: shift the limbs right by one bit, most significant limb first.
div2(limbs) ==
    LET hi == limbs[2]
        t2 == (hi * 2 ^ (LimbBits - 1)) % LimbBase
        lo == limbs[1]
    IN <<((lo \div 2) + t2) % LimbBase, hi \div 2>>

\* while cofactor[0] % 2 == 0 { div2(&mut cofactor); power_of_2 += 1 }
RECURSIVE StripEven(_, _)
StripEven(limbs, power_of_2) ==
    IF limbs[1] % 2 = 0 /\ LimbsValue(limbs) # 0
    THEN StripEven(div2(limbs), power_of_2 + 1)
    ELSE [cofactor |-> limbs, power_of_2 |-> power_of_2]

\* BitIteratorBE::without_leading_zeros(n)
RECURSIVE BitsBE(_)
BitsBE(n) == IF n = 0 THEN <<>> ELSE Append(BitsBE(n \div 2), n % 2 = 1)

\* BitIteratorBE::new(n).filter(|b| *b).count()
RECURSIVE Weight(_)
Weight(n) == IF n = 0 THEN 0 ELSE (n % 2) + Weight(n \div 2)

\* inverse in the scalar field F_r
ScalarInv(n) == CHOOSE w \in 1 .. (curve.r - 1) : (n * w) % curve.r = 1

\* AffineCurve::mul_by_cofactor_inv
mul_by_cofactor_inv(g) == NativeMul(ScalarInv(curve.h % curve.r), g)

\* odd order; cofactor 2 with hw(h') < hw(r - 1); cofactor 2 with hw(h') >= hw(r - 1);
\* cofactor 4 (a second limb, k = 2) with hw(h') >= hw(r - 1);
\* odd cofactor 3 with hw(h') >= hw(r - 1)
AllocCurves ==
    { [q |-> 5, a |-> 2, b |-> 1, r |-> 7, h |-> 1],
      [q |-> 11, a |-> 1, b |-> 1, r |-> 7, h |-> 2],
      [q |-> 5, a |-> 3, b |-> 0, r |-> 5, h |-> 2],
      [q |-> 13, a |-> 7, b |-> 5, r |-> 5, h |-> 4],
      [q |-> 11, a |-> 7, b |-> 1, r |-> 5, h |-> 3] }

\* what the closure f may yield: the identity or any pair of coordinates
NativeValues == {NativeZero} \cup {NativeNew(x, y) : x \in Fq, y \in Fq}

InitAlloc ==
    /\ curve \in AllocCurves
    /\ pc = "alloc"
    /\ regs = <<zero, zero>>
    /\ out = NoOut
    /\ frame \in [g : NativeValues, mode : Modes]
    /\ sat = TRUE
    /\ emitted = FALSE

\* ProjectiveVar::new_variable_omit_prime_order_check(cs, || Ok(g), mode)
CallOmitPrimeOrderCheck ==
    /\ pc = "alloc"
    /\ LET res == new_variable_omit_prime_order_check(frame.g, frame.mode)
       IN /\ out' = [op |-> "new_variable_omit_prime_order_check", res |-> res.var]
          /\ sat' = (sat /\ res.ok)
          /\ emitted' = (emitted \/ res.emitted)
    /\ pc' = "returned"
    /\ UNCHANGED <<curve, regs, frame>>

\* AllocVar<SWProjective<P>>::new_variable up to the allocation of ge.
NewVariable ==
    /\ pc = "alloc"
    /\ NativeOnCurve(frame.g)
    /\ IF frame.mode # "Witness"
       THEN LET res == new_variable_omit_prime_order_check(frame.g, frame.mode)
            IN /\ out' = [op |-> "new_variable", res |-> res.var]
               /\ sat' = (sat /\ res.ok)
               /\ emitted' = (emitted \/ res.emitted)
               /\ pc' = "returned"
               /\ UNCHANGED frame
       ELSE LET stripped == StripEven(Limbs(curve.h), 0)
                cofactor == LimbsValue(stripped.cofactor)
                power_of_2 == stripped.power_of_2
                cofactor_weight == Weight(cofactor)
                modulus_minus_1 == curve.r - 1
                modulus_minus_1_weight == Weight(modulus_minus_1)
                cofactor_branch == cofactor_weight < modulus_minus_1_weight
                native == IF cofactor_branch
                          THEN mul_by_cofactor_inv(frame.g)
                          ELSE NativeMul(ScalarInv((2 ^ power_of_2) % curve.r), frame.g)
                res == new_variable_omit_prime_order_check(native, frame.mode)
            IN /\ frame' = [g |-> frame.g, mode |-> frame.mode,
                            ge |-> res.var,
                            iter |-> IF cofactor_branch THEN BitsBE(cofactor)
                                     ELSE BitsBE(modulus_minus_1),
                            power_of_2 |-> power_of_2,
                            cofactor_branch |-> cofactor_branch,
                            result |-> zero]
               /\ sat' = (sat /\ res.ok)
               /\ emitted' = (emitted \/ res.emitted)
               /\ pc' = "clear_even"
               /\ UNCHANGED out
    /\ UNCHANGED <<curve, regs>>

\* for _ in 0..power_of_2 { ge.double_in_place()?; }
ClearEven ==
    /\ pc = "clear_even"
    /\ IF frame.power_of_2 > 0
       THEN /\ frame' = [frame EXCEPT !.ge = double_in_place(@), !.power_of_2 = @ - 1]
            /\ pc' = pc
       ELSE /\ pc' = "double_and_add"
            /\ UNCHANGED frame
    /\ UNCHANGED <<curve, regs, out, sat, emitted>>

\* for b in iter { result.double_in_place()?; if b { result += &ge } }
DoubleAndAdd ==
    /\ pc = "double_and_add"
    /\ frame.iter # <<>>
    /\ LET doubled == double_in_place(frame.result)
       IN frame' = [frame EXCEPT !.result = IF Head(frame.iter) THEN add(doubled, frame.ge)
                                            ELSE doubled,
                                 !.iter = Tail(@)]
    /\ UNCHANGED <<curve, pc, regs, out, sat, emitted>>

\* mutant: the computed multiple returned in both branches
FinishNewVariable_returns_result ==
    /\ pc = "double_and_add"
    /\ frame.iter = <<>>
    /\ out' = [op |-> "new_variable", res |-> frame.result]
    /\ IF frame.cofactor_branch
       THEN UNCHANGED <<sat, emitted>>
       ELSE /\ sat' = (sat /\ is_eq(frame.ge, frame.ge))
            /\ emitted' = TRUE
    /\ pc' = "returned"
    /\ UNCHANGED <<curve, regs, frame>>

\* if cofactor_weight < modulus_minus_1_weight { Ok(result) }
\* else { ge.enforce_equal(&ge)?; Ok(ge) }
FinishNewVariable ==
    /\ pc = "double_and_add"
    /\ frame.iter = <<>>
    /\ IF frame.cofactor_branch
       THEN /\ out' = [op |-> "new_variable", res |-> frame.result]
            /\ UNCHANGED <<sat, emitted>>
       ELSE /\ out' = [op |-> "new_variable", res |-> frame.ge]
            /\ sat' = (sat /\ is_eq(frame.ge, frame.ge))
            /\ emitted' = TRUE
    /\ pc' = "returned"
    /\ UNCHANGED <<curve, regs, frame>>

NextAlloc ==
    \/ CallOmitPrimeOrderCheck
    \/ NewVariable
    \/ ClearEven
    \/ DoubleAndAdd
    \/ FinishNewVariable

SpecAlloc == InitAlloc /\ [][NextAlloc]_vars

----------------------------------------------------------------------------
(* The on-curve constraint against any assignment of the allocated x, y, z *)

AssignCurves ==
    { [q |-> 5, a |-> 2, b |-> 1, r |-> 7, h |-> 1],
      [q |-> 5, a |-> 3, b |-> 0, r |-> 5, h |-> 2],
      [q |-> 7, a |-> 0, b |-> 5, r |-> 7, h |-> 1] }

\* regs[1] holds the assignment of the variables allocated in Input or Witness
\* mode by new_variable_omit_on_curve_check.
InitAssign ==
    /\ curve \in AssignCurves
    /\ pc = "allocated"
    /\ regs \in [x : Fq, y : Fq, z : Fq, c : {FALSE}] \X {zero}
    /\ out = NoOut
    /\ frame \in [mode : {"Input", "Witness"}]
    /\ sat = TRUE
    /\ emitted = FALSE

\* the on-curve check of new_variable_omit_prime_order_check on regs[1]
EnforceOnCurve ==
    /\ pc = "allocated"
    /\ sat' = (sat /\ on_curve_check(regs[1]))
    /\ emitted' = TRUE
    /\ out' = [op |-> "new_variable_omit_prime_order_check", res |-> regs[1]]
    /\ pc' = "returned"
    /\ UNCHANGED <<curve, regs, frame>>

NextAssign == EnforceOnCurve

SpecAssign == InitAssign /\ [][NextAssign]_vars

----------------------------------------------------------------------------
(* NonZeroAffineVar and AffineVar *)

Affine(x, y, c) == [x |-> x, y |-> y, c |-> c]

\* NonZeroAffineVar::add_unchecked: lambda is a witness with
\* lambda * (x2 - x1) = y2 - y1; ok tells whether that constraint holds.
add_unchecked(this, other) ==
    LET x1 == this.x
        y1 == this.y
        x2 == other.x
        y2 == other.y
        numerator == FSub(y2, y1)
        denominator == FSub(x2, x1)
        lambda == FMul(numerator, FInvOrZero(denominator))
        x3 == FSub(FSub(FSquare(lambda), x1), x2)
        y3 == FSub(FMul(lambda, FSub(x1, x3)), y1)
    IN [pt |-> Affine(x3, y3, this.c /\ other.c),
        ok |-> FMul(lambda, denominator) = numerator]

\* NonZeroAffineVar::double_in_place: lambda = (3 x^2 + a) / 2y as a witness
\* with lambda * 2y = 3 x^2 + a.
affine_double_in_place(this) ==
    LET x1 == this.x
        y1 == this.y
        numerator == FAdd(FMul(3, FSquare(x1)), COEFF_A)
        denominator == FDouble(y1)
        lambda == FMul(numerator, FInvOrZero(denominator))
        x3 == FSub(FSub(FSquare(lambda), x1), x1)
        y3 == FSub(FMul(lambda, FSub(x1, x3)), y1)
    IN [pt |-> Affine(x3, y3, this.c),
        ok |-> FMul(lambda, denominator) = numerator]

\* NonZeroAffineVar::into_projective
into_projective(this) == Proj(this.x, this.y, 1, this.c)

\* bit.select(&t, &f) on NonZeroAffineVar
affine_select(cond, true_value, false_value) ==
    IF cond.c
    THEN (IF cond.v THEN true_value ELSE false_value)
    ELSE LET t == IF cond.v THEN true_value ELSE false_value
         IN Affine(t.x, t.y, FALSE)

\* mutant: z_inv * z = !is_zero not enforced
to_affine_with_unconstrained(this, z_inv) ==
    IF this.c
    THEN [x |-> value(this).x, y |-> value(this).y,
          infinity |-> [v |-> value(this).infinity, c |-> TRUE], ok |-> TRUE]
    ELSE LET infinity == this.z = 0
             non_zero_x == FMul(z_inv, this.x)
             non_zero_y == FMul(z_inv, this.y)
         IN [x |-> IF infinity THEN 0 ELSE non_zero_x,
             y |-> IF infinity THEN 1 ELSE non_zero_y,
             infinity |-> [v |-> infinity, c |-> FALSE],
             ok |-> TRUE]

\* ProjectiveVar::to_affine with the value z_inv given to the witness
\* "z_inverse": the AffineVar and whether z_inv * z = !is_zero holds.
to_affine_with(this, z_inv) ==
    IF this.c
    THEN [x |-> value(this).x, y |-> value(this).y,
          infinity |-> [v |-> value(this).infinity, c |-> TRUE], ok |-> TRUE]
    ELSE LET infinity == this.z = 0
             non_zero_x == FMul(z_inv, this.x)
             non_zero_y == FMul(z_inv, this.y)
         IN [x |-> IF infinity THEN 0 ELSE non_zero_x,
             y |-> IF infinity THEN 1 ELSE non_zero_y,
             infinity |-> [v |-> infinity, c |-> FALSE],
             ok |-> FMul(z_inv, this.z) = (IF infinity THEN 0 ELSE 1)]

\* ProjectiveVar::to_affine with the honest z_inverse
to_affine(this) == to_affine_with(this, FInvOrZero(this.z))

----------------------------------------------------------------------------
(* scalar_mul_le and fixed_scalar_mul_le, one loop iteration per step *)

\* longest bit vector passed to scalar_mul_le
MaxBits == 4

RECURSIVE BitLength(_)
BitLength(n) == IF n = 0 THEN 0 ELSE 1 + BitLength(n \div 2)

\* <P::ScalarField as PrimeField>::size_in_bits()
scalar_modulus_bits == BitLength(curve.r)

Min(m, n) == IF m < n THEN m ELSE n

\* bits.into_iter().rev().skip_while(constant false).collect(), reversed back
RECURSIVE StripLeadingZeros(_)
StripLeadingZeros(bits) ==
    IF bits # <<>> /\ bits[Len(bits)].c /\ ~bits[Len(bits)].v
    THEN StripLeadingZeros(SubSeq(bits, 1, Len(bits) - 1))
    ELSE bits

\* the integer sum of b_i * 2^i
RECURSIVE BitsValue(_)
BitsValue(bits) ==
    IF bits = <<>> THEN 0
    ELSE (IF Head(bits).v THEN 1 ELSE 0) + 2 * BitsValue(Tail(bits))

\* a = 0 with r = 13 and a # 0 with r = 11, both with size_in_bits = 4, and
\* r = 7 with size_in_bits = 3, where MaxBits bits make two chunks
MulCurves ==
    { [q |-> 7, a |-> 0, b |-> 3, r |-> 13, h |-> 1],
      [q |-> 7, a |-> 1, b |-> 6, r |-> 11, h |-> 1],
      [q |-> 5, a |-> 2, b |-> 1, r |-> 7, h |-> 1] }

BitVectors == UNION { [1 .. n -> Booleans] : n \in 0 .. MaxBits }

\* self: a constant, or a variable in a representative with z in {0, 1, 2}
\* (or the degenerate (0,0,0), which the on-curve check accepts), of a point of
\* the prime-order subgroup
MulSelves ==
    {constant(g) : g \in PrimeOrderPoints}
    \cup {t \in [x : Fq, y : Fq, z : {0, 1, 2}, c : {FALSE}] :
            OnProjectiveCurve(t) /\ (t.z = 0 => t.x = 0) /\ value(t) \in PrimeOrderPoints}

\* scalar_mul_le called by the client, not from another method
NoCaller == [op |-> "none"]

InitMul ==
    /\ curve \in MulCurves
    /\ pc = "scalar_mul_le"
    /\ regs \in MulSelves \X {zero}
    /\ out = NoOut
    /\ frame \in [bits : BitVectors, caller : {NoCaller}]
    /\ sat = TRUE
    /\ emitted = FALSE

\* scalar_mul_le up to the chunk loop
ScalarMulEntry ==
    /\ pc = "scalar_mul_le"
    /\ LET self == regs[1]
           self_affine == to_affine(self)
           non_zero_self == Affine(self_affine.x, self_affine.y, self.c)
       IN IF self.c /\ value(self).infinity
          THEN /\ out' = [op |-> "scalar_mul_le", res |-> self]
               /\ pc' = "returned"
               /\ UNCHANGED <<frame, sat, emitted>>
          ELSE IF Len(frame.bits) = 0
          THEN /\ out' = [op |-> "scalar_mul_le", res |-> zero]
               /\ pc' = "returned"
               /\ sat' = (sat /\ self_affine.ok)
               /\ emitted' = (emitted \/ ~self.c)
               /\ UNCHANGED frame
          ELSE /\ frame' = [bits |-> frame.bits,
                            caller |-> frame.caller,
                            rest |-> StripLeadingZeros(frame.bits),
                            chunk |-> <<>>,
                            done |-> 0,
                            i |-> 0,
                            infinity |-> self_affine.infinity,
                            seed |-> non_zero_self,
                            accumulator |-> non_zero_self,
                            initial_acc_value |-> zero,
                            mul_result |-> zero,
                            multiple_of_power_of_two |-> non_zero_self]
               /\ pc' = "chunks"
               /\ sat' = (sat /\ self_affine.ok)
               /\ emitted' = (emitted \/ ~self.c)
               /\ UNCHANGED out
    /\ UNCHANGED <<curve, regs>>

\* fixed_scalar_mul_le on the next chunk, up to the loop over affine_bits
FixedScalarMulEntry ==
    /\ pc = "chunks"
    /\ frame.rest # <<>>
    /\ LET n == Min(scalar_modulus_bits, Len(frame.rest))
           doubled == affine_double_in_place(frame.multiple_of_power_of_two)
       IN /\ frame' = [frame EXCEPT
                 !.chunk = SubSeq(frame.rest, 1, n),
                 !.rest = SubSeq(frame.rest, n + 1, Len(frame.rest)),
                 !.i = 1,
                 !.seed = frame.multiple_of_power_of_two,
                 !.accumulator = frame.multiple_of_power_of_two,
                 !.initial_acc_value = into_projective(frame.multiple_of_power_of_two),
                 !.multiple_of_power_of_two = doubled.pt]
          /\ sat' = (sat /\ doubled.ok)
          /\ emitted' = (emitted \/ ~doubled.pt.c)
    /\ pc' = "affine_bits"
    /\ UNCHANGED <<curve, regs, out>>

\* mutant: the incomplete formulae used for the whole chunk
split_len_whole_chunk == Min(scalar_modulus_bits, Len(frame.chunk))

split_len == Min(scalar_modulus_bits - 2, Len(frame.chunk))

\* one iteration of the loop over affine_bits.iter().skip(1)
AffineBit ==
    /\ pc = "affine_bits"
    /\ frame.i < split_len
    /\ LET bit == frame.chunk[frame.i + 1]
           temp == add_unchecked(frame.accumulator, frame.multiple_of_power_of_two)
           doubled == affine_double_in_place(frame.multiple_of_power_of_two)
           added == bit.c => bit.v
       IN /\ frame' = [frame EXCEPT
                 !.accumulator =
                     IF bit.c
                     THEN (IF bit.v THEN temp.pt ELSE frame.accumulator)
                     ELSE affine_select(bit, temp.pt, frame.accumulator),
                 !.multiple_of_power_of_two = doubled.pt,
                 !.i = frame.i + 1]
          /\ sat' = (sat /\ (added => temp.ok) /\ doubled.ok)
          /\ emitted' = (emitted \/ (added /\ ~temp.pt.c) \/ ~bit.c \/ ~doubled.pt.c)
    /\ UNCHANGED <<curve, pc, regs, out>>

\* mutant: the seed subtracted when bits[0] is set
ConditionalSubtract_swapped ==
    /\ pc = "affine_bits"
    /\ frame.i >= split_len
    /\ LET result == into_projective(frame.accumulator)
           subtrahend == conditionally_select(frame.chunk[1], frame.initial_acc_value, zero)
       IN frame' = [frame EXCEPT
              !.mul_result = add(frame.mul_result, sub(result, subtrahend)),
              !.i = split_len]
    /\ pc' = "proj_bits"
    /\ UNCHANGED <<curve, regs, out, sat, emitted>>

\* the conditional subtraction: *mul_result += result - subtrahend
ConditionalSubtract ==
    /\ pc = "affine_bits"
    /\ frame.i >= split_len
    /\ LET result == into_projective(frame.accumulator)
           subtrahend == conditionally_select(frame.chunk[1], zero, frame.initial_acc_value)
       IN frame' = [frame EXCEPT
              !.mul_result = add(frame.mul_result, sub(result, subtrahend)),
              !.i = split_len]
    /\ pc' = "proj_bits"
    /\ UNCHANGED <<curve, regs, out, sat, emitted>>

\* one iteration of the loop over proj_bits
ProjBit ==
    /\ pc = "proj_bits"
    /\ frame.i < Len(frame.chunk)
    /\ LET bit == frame.chunk[frame.i + 1]
           temp == add(frame.mul_result, into_projective(frame.multiple_of_power_of_two))
           doubled == affine_double_in_place(frame.multiple_of_power_of_two)
       IN /\ frame' = [frame EXCEPT
                 !.mul_result =
                     IF bit.c
                     THEN (IF bit.v THEN temp ELSE frame.mul_result)
                     ELSE conditionally_select(bit, temp, frame.mul_result),
                 !.multiple_of_power_of_two = doubled.pt,
                 !.i = frame.i + 1]
          /\ sat' = (sat /\ doubled.ok)
          /\ emitted' = (emitted \/ ~bit.c \/ ~doubled.pt.c)
    /\ UNCHANGED <<curve, pc, regs, out>>

\* fixed_scalar_mul_le returns Ok(())
FixedScalarMulReturn ==
    /\ pc = "proj_bits"
    /\ frame.i >= Len(frame.chunk)
    /\ frame' = [frame EXCEPT !.done = frame.done + Len(frame.chunk)]
    /\ pc' = "chunks"
    /\ UNCHANGED <<curve, regs, out, sat, emitted>>

\* mutant: mul_result returned without the final selection
FinalSelect_unmasked ==
    /\ pc = "chunks"
    /\ frame.rest = <<>>
    /\ out' = [op |-> "scalar_mul_le", res |-> frame.mul_result]
    /\ pc' = "returned"
    /\ UNCHANGED <<curve, regs, frame, sat, emitted>>

\* infinity.select(&Self::zero(), &mul_result)
FinalSelect ==
    /\ pc = "chunks"
    /\ frame.rest = <<>>
    /\ out' = [op |-> "scalar_mul_le",
               res |-> conditionally_select(frame.infinity, zero, frame.mul_result)]
    /\ pc' = "returned"
    /\ UNCHANGED <<curve, regs, frame, sat, emitted>>

\* the bases paired with the bits: the first one, then another point repeated
PairedBases(n, base, other) == [i \in 1 .. n |-> IF i = 1 THEN base ELSE other]

PreCurves ==
    { [q |-> 7, a |-> 0, b |-> 3, r |-> 13, h |-> 1],
      [q |-> 5, a |-> 2, b |-> 1, r |-> 7, h |-> 1] }

\* regs[1] is self, holding any point before the call; the sequence of
\* (bit, base) pairs is not empty
InitPre ==
    /\ curve \in PreCurves
    /\ pc = "precomputed_base_scalar_mul_le"
    /\ out = NoOut
    /\ \E bits \in BitVectors, base \in PrimeOrderPoints :
       \E other \in {NativeZero, NativeNeg(base)} :
          /\ Len(bits) >= 1
          /\ frame = [bits |-> bits, bases |-> PairedBases(Len(bits), base, other)]
          /\ regs \in {zero, new_variable_omit_on_curve_check(NativeAdd(base, base), "Witness")}
                        \X {zero}
    /\ sat = TRUE
    /\ emitted = FALSE

\* mutant: the last base taken in place of the first
PrecomputedBaseEntry_last_base ==
    /\ pc = "precomputed_base_scalar_mul_le"
    /\ LET bits == frame.bits
           bases == frame.bases
           base == bases[Len(bases)]
       IN /\ regs' = <<constant(base), regs[2]>>
          /\ frame' = [bits |-> bits,
                       caller |-> [op |-> "precomputed_base_scalar_mul_le",
                                   bases |-> bases, self |-> regs[1]]]
    /\ pc' = "scalar_mul_le"
    /\ UNCHANGED <<curve, out, sat, emitted>>

\* precomputed_base_scalar_mul_le up to the call
\* Self::constant(base).scalar_mul_le(bits.iter()), whose receiver takes regs[1]
PrecomputedBaseEntry ==
    /\ pc = "precomputed_base_scalar_mul_le"
    /\ LET bits == frame.bits
           bases == frame.bases
           base == bases[1]
       IN /\ regs' = <<constant(base), regs[2]>>
          /\ frame' = [bits |-> bits,
                       caller |-> [op |-> "precomputed_base_scalar_mul_le",
                                   bases |-> bases, self |-> regs[1]]]
    /\ pc' = "scalar_mul_le"
    /\ UNCHANGED <<curve, out, sat, emitted>>

\* *self = <the product>; Ok(())
PrecomputedBaseReturn ==
    /\ pc = "returned"
    /\ frame.caller.op = "precomputed_base_scalar_mul_le"
    /\ regs' = <<out.res, regs[2]>>
    /\ out' = [op |-> "precomputed_base_scalar_mul_le"]
    /\ pc' = "done"
    /\ UNCHANGED <<curve, frame, sat, emitted>>

NextMul ==
    \/ ScalarMulEntry
    \/ FixedScalarMulEntry
    \/ AffineBit
    \/ ConditionalSubtract
    \/ ProjBit
    \/ FixedScalarMulReturn
    \/ FinalSelect

SpecMul == InitMul /\ [][NextMul]_vars

\* bit vectors of up to n bits, of variables only or of constants only
UniformBitVectors(n) ==
    UNION { [1 .. m -> [v : BOOLEAN, c : {k}]] : m \in 0 .. n, k \in BOOLEAN }

\* prime orders 17 and 19 (a = 0), size_in_bits = 5: the affine prefix holds up
\* to three bits of a chunk
PrefixCurves ==
    { [q |-> 11, a |-> 2, b |-> 4, r |-> 17, h |-> 1],
      [q |-> 13, a |-> 0, b |-> 2, r |-> 19, h |-> 1] }

\* self: a constant or a witness as allocation leaves it, (x, y, 1) or (0, 1, 0)
AllocatedSelves ==
    UNION { {constant(g), new_variable_omit_on_curve_check(g, "Witness")} :
                g \in PrimeOrderPoints }

InitPrefix ==
    /\ curve \in PrefixCurves
    /\ pc = "scalar_mul_le"
    /\ regs \in AllocatedSelves \X {zero}
    /\ out = NoOut
    /\ frame \in [bits : UniformBitVectors(MaxBits), caller : {NoCaller}]
    /\ sat = TRUE
    /\ emitted = FALSE

SpecPrefix == InitPrefix /\ [][NextMul]_vars

\* longest bit vector of the runs over several chunks
MaxChunkBits == 6

\* size_in_bits = 3 (two full chunks of three bits) and size_in_bits = 4 (a
\* second chunk of two bits, with an addition in its affine prefix)
ChunkCurves ==
    { [q |-> 5, a |-> 2, b |-> 1, r |-> 7, h |-> 1],
      [q |-> 7, a |-> 1, b |-> 6, r |-> 11, h |-> 1] }

InitChunk ==
    /\ curve \in ChunkCurves
    /\ pc = "scalar_mul_le"
    /\ regs \in AllocatedSelves \X {zero}
    /\ out = NoOut
    /\ frame \in [bits : UniformBitVectors(MaxChunkBits), caller : {NoCaller}]
    /\ sat = TRUE
    /\ emitted = FALSE

SpecChunk == InitChunk /\ [][NextMul]_vars

NextPre ==
    \/ PrecomputedBaseEntry
    \/ ScalarMulEntry
    \/ FixedScalarMulEntry
    \/ AffineBit
    \/ ConditionalSubtract
    \/ ProjBit
    \/ FixedScalarMulReturn
    \/ FinalSelect
    \/ PrecomputedBaseReturn

SpecPre == InitPre /\ [][NextPre]_vars

----------------------------------------------------------------------------
(* Properties of the complete formulae *)

\* the native point is a point of order 2
OrderTwo(g) == ~g.infinity /\ g.y = 0

\* the call returned the complete addition (Algorithm 1) of two variables
AddedVariables == pc = "returned" /\ out.op = "add" /\ ~regs[1].c /\ ~regs[2].c

\* C2 as stated: complete addition of two non-constant valid triples returns a
\* valid triple that represents the native sum, for all inputs.
C2_CompleteAddAllInputs ==
    AddedVariables =>
        /\ ValidTriple(out.res)
        /\ value(out.res) = NativeAdd(value(regs[1]), value(regs[2]))

\* C2 amended: the same, for all inputs whose difference P - Q is not a point of
\* order 2 (no such pair exists on a curve of odd order).
C2_CompleteAdd ==
    (AddedVariables /\ ~OrderTwo(NativeAdd(value(regs[1]), NativeNeg(value(regs[2]))))) =>
        /\ ValidTriple(out.res)
        /\ value(out.res) = NativeAdd(value(regs[1]), value(regs[2]))

\* C2 witness: a self-addition of a non-canonical representative
C2_Witness ==
    /\ AddedVariables
    /\ regs[1] = regs[2]
    /\ regs[1].z \notin {0, 1}
    /\ ValidTriple(out.res)

\* C3: in the session every point variable stays on the projective curve
\* equation Y^2 Z = X^3 + a X Z^2 + b Z^3.
C3_CurveEquationInvariant ==
    (pc = "session" /\ sat) => \A i \in Reg : OnProjectiveCurve(regs[i])

\* C3 witness: a variable reached by arithmetic, in a non-canonical
\* representative, next to a constant operand
C3_Witness ==
    /\ pc = "session"
    /\ ~regs[1].c /\ regs[1].z \notin {0, 1} /\ regs[1].x # 0
    /\ regs[2].c /\ regs[2].z \notin {0, 1}

\* C7: P + P by complete addition and double(P) are equal under is_eq and both
\* have the value of the native double of P.
C7_DoublingConsistency ==
    (pc = "returned" /\ out.op = "double" /\ ~regs[1].c) =>
        LET sum == add_complete(regs[1], regs[1])
            twice == NativeAdd(value(regs[1]), value(regs[1]))
        IN /\ is_eq(sum, out.res)
           /\ value(sum) = twice
           /\ value(out.res) = twice
           /\ ValidTriple(sum) /\ ValidTriple(out.res)

\* C7 witness: the double of a non-canonical representative of a finite point
C7_Witness ==
    /\ pc = "returned" /\ out.op = "double" /\ ~regs[1].c
    /\ regs[1].z \notin {0, 1}
    /\ out.res.z # 0

\* C8: P + zero() and zero() + P have the value of P, P - P and double(zero())
\* have z = 0.
C8_IdentityLaws ==
    pc = "returned" =>
        /\ (out.op = "add" /\ regs[2] = zero) => value(out.res) = value(regs[1])
        /\ (out.op = "add" /\ regs[1] = zero) => value(out.res) = value(regs[2])
        /\ (out.op = "sub" /\ regs[1] = regs[2]) => out.res.z = 0
        /\ (out.op = "double" /\ regs[1] = zero) => out.res.z = 0

\* C8 witness: P - P for a variable finite point P
C8_Witness ==
    /\ pc = "returned" /\ out.op = "sub"
    /\ regs[1] = regs[2] /\ ~regs[1].c /\ regs[1].z # 0
    /\ out.res.z = 0 /\ out.res.y # 0

----------------------------------------------------------------------------
(* Properties of allocation *)

\* a valid projective point: a finite point of the affine curve, or x = 0, y # 0, z = 0
IsCurvePoint(t) ==
    \/ t.z # 0 /\ NativeOnCurve(value(t))
    \/ t.z = 0 /\ t.x = 0 /\ t.y # 0

\* C9 as stated: every assignment that satisfies the on-curve constraint is a
\* valid projective point; (0,0,0) is not accepted.
C9_OnCurvePredicateSound ==
    (pc = "returned" /\ emitted /\ sat) => IsCurvePoint(out.res)

\* C9 amended: every assignment that satisfies the on-curve constraint is a
\* finite point of the affine curve (z # 0) or has z = 0 and x = 0, which the
\* gadget reads as the identity; y is then unconstrained and (0,0,0) is accepted.
C9_OnCurvePredicate ==
    (pc = "returned" /\ out.op = "new_variable_omit_prime_order_check" /\ emitted /\ sat) =>
        \/ out.res.z # 0 /\ NativeOnCurve(value(out.res))
        \/ out.res.z = 0 /\ out.res.x = 0

\* C9 witness: an accepted assignment in a non-canonical representative, and a
\* rejected one
C9_Witness ==
    /\ pc = "returned" /\ emitted /\ sat
    /\ out.res.z \notin {0, 1} /\ out.res.x # 0

\* C10: allocating an off-curve native point in Input or Witness mode leaves the
\* system unsatisfied, on-curve points and the identity satisfy it and are
\* mapped to (x, y, 1) and (0, 1, 0), and Constant mode emits no constraint.
C10_AllocationOnCurve ==
    (pc = "returned" /\ out.op = "new_variable_omit_prime_order_check") =>
        /\ frame.mode # "Constant" => (emitted /\ (sat <=> NativeOnCurve(frame.g)))
        /\ frame.mode = "Constant" => (~emitted /\ sat)
        /\ out.res = IF frame.g.infinity THEN Proj(0, 1, 0, frame.mode = "Constant")
                     ELSE Proj(frame.g.x, frame.g.y, 1, frame.mode = "Constant")

\* C10 witness: an off-curve point witnessed, the system unsatisfied
C10_Witness ==
    /\ pc = "returned" /\ out.op = "new_variable_omit_prime_order_check"
    /\ frame.mode = "Witness"
    /\ ~NativeOnCurve(frame.g) /\ ~sat

----------------------------------------------------------------------------
(* Properties of scalar_mul_le *)

ScalarMulReturned == pc = "returned" /\ out.op = "scalar_mul_le"

\* the bits passed to the call
CallBits == frame.bits

\* C1: for P in the prime-order subgroup and at most size_in_bits bits, the
\* value of scalar_mul_le(bits) is the native multiple (sum of b_i 2^i) * P.
C1_ScalarMulNative ==
    (ScalarMulReturned /\ Len(CallBits) <= scalar_modulus_bits) =>
        value(out.res) = NativeMul(BitsValue(CallBits), value(regs[1]))

\* C1 witness: the bits of r (all variable) applied to a finite variable point
\* give the identity
C1_Witness ==
    /\ ScalarMulReturned
    /\ Len(CallBits) = scalar_modulus_bits
    /\ BitsValue(CallBits) = curve.r
    /\ \A i \in DOMAIN CallBits : ~CallBits[i].c
    /\ ~regs[1].c /\ regs[1].z # 0
    /\ value(out.res).infinity

\* C5: for the identity and every bit pattern the value of scalar_mul_le is
\* the identity; a constant zero is returned at once, and for a variable the
\* final selector returns (0, 1, 0).
C5_IdentityMasking ==
    (ScalarMulReturned /\ value(regs[1]).infinity) =>
        /\ value(out.res).infinity
        /\ regs[1].c => (out.res = regs[1] /\ ~emitted)
        /\ (~regs[1].c /\ CallBits # <<>>) => out.res = Proj(0, 1, 0, FALSE)

\* C5 witness: a variable identity multiplied by more than size_in_bits bits,
\* the most significant one set
C5_Witness ==
    /\ ScalarMulReturned
    /\ ~regs[1].c /\ regs[1].z = 0
    /\ Len(CallBits) > scalar_modulus_bits
    /\ CallBits[Len(CallBits)].v
    /\ value(out.res).infinity

NonConstantBits == Cardinality({i \in DOMAIN CallBits : ~CallBits[i].c})

\* C6: multiplying a non-constant identity by bits of which at least two are
\* not constant leaves every emitted constraint satisfied, for every a.
C6_IdentityMulSatisfied ==
    (pc # "scalar_mul_le" /\ ~regs[1].c /\ regs[1].z = 0 /\ NonConstantBits >= 2) => sat

----------------------------------------------------------------------------
(* Properties of the Witness allocation *)

\* new_variable returned in Witness mode through the cofactor branch on a
\* curve with cofactor > 1, for an on-curve point outside the prime-order subgroup
WitnessedOutsideSubgroup ==
    /\ pc = "returned" /\ out.op = "new_variable"
    /\ frame.mode = "Witness" /\ frame.cofactor_branch
    /\ curve.h > 1
    /\ NativeOnCurve(frame.g) /\ frame.g \notin PrimeOrderPoints

\* C4 as stated: witnessing a point outside the prime-order subgroup in the
\* cofactor branch leaves the constraint system unsatisfied.
C4_OutsideSubgroupUnsatisfied == WitnessedOutsideSubgroup => ~sat

\* C4 amended: the constraint system stays satisfied; the returned variable
\* holds a point of the prime-order subgroup, which is not the point witnessed.
C4_OutsideSubgroupCleared ==
    WitnessedOutsideSubgroup =>
        /\ sat
        /\ value(out.res) \in PrimeOrderPoints
        /\ value(out.res) # frame.g

\* C4 witness: a point of order 2h' r witnessed, a finite point returned
C4_Witness ==
    /\ WitnessedOutsideSubgroup
    /\ sat
    /\ ~value(out.res).infinity
    /\ value(out.res) = NativeMul(curve.h, mul_by_cofactor_inv(frame.g))

\* new_variable returned in Witness mode
WitnessReturned ==
    pc = "returned" /\ out.op = "new_variable" /\ frame.mode = "Witness"

\* C11: Witness allocation of a point of the prime-order subgroup returns a
\* variable with the value of that point and leaves every constraint satisfied,
\* in the cofactor branch and in the other branch.
C11_WitnessRoundTrip ==
    (WitnessReturned /\ frame.g \in PrimeOrderPoints) =>
        /\ sat
        /\ value(out.res) = frame.g
        /\ ValidTriple(out.res)

\* C11 witness: a finite subgroup point allocated on the cofactor-4 curve, whose
\* cofactor fills the second limb and is halved twice
C11_Witness ==
    /\ WitnessReturned /\ frame.g \in PrimeOrderPoints
    /\ ~frame.g.infinity
    /\ curve.h = 4 /\ Limbs(curve.h)[2] # 0
    /\ ~frame.cofactor_branch
    /\ value(out.res) = frame.g

----------------------------------------------------------------------------
(* Properties of the equality gadget *)

\* the two operands represent the same group element
SameElement == value(regs[1]) = value(regs[2])

----------------------------------------------------------------------------
(* Conversion to affine form and serialization of one point *)

\* width of a UInt8
ByteBits == 8

\* <BF<P> as PrimeField>::size_in_bits()
base_modulus_bits == BitLength(curve.q)

\* FpVar::to_bits_le: size_in_bits Booleans, least significant first
FieldToBitsLE(u, c) ==
    [i \in 1 .. base_modulus_bits |-> [v |-> (u \div 2 ^ (i - 1)) % 2 = 1, c |-> c]]

\* FpVar::to_bytes: the bytes of the element, least significant first
FieldToBytes(u) ==
    [i \in 1 .. ((base_modulus_bits + ByteBits - 1) \div ByteBits) |->
        (u \div (2 ^ ByteBits) ^ (i - 1)) % (2 ^ ByteBits)]

\* Boolean::to_bytes: one byte holding the bit
BooleanToBytes(b) == <<IF b.v THEN 1 ELSE 0>>

\* mutant: the infinity flag pushed before the coordinates
to_bits_le_flag_first(this) ==
    LET g == to_affine(this)
    IN <<g.infinity>> \o FieldToBitsLE(g.x, this.c) \o FieldToBitsLE(g.y, this.c)

\* ToBitsGadget::to_bits_le
to_bits_le(this) ==
    LET g == to_affine(this)
        bits == FieldToBitsLE(g.x, this.c)
        y_bits == FieldToBitsLE(g.y, this.c)
    IN Append(bits \o y_bits, g.infinity)

\* ToBytesGadget::to_bytes
to_bytes(this) ==
    LET g == to_affine(this)
        bytes == FieldToBytes(g.x)
        y_bytes == FieldToBytes(g.y)
        inf_bytes == BooleanToBytes(g.infinity)
    IN (bytes \o y_bytes) \o inf_bytes

\* ToConstraintFieldGadget::to_constraint_field, over a prime base field
to_constraint_field(this) ==
    LET g == to_affine(this)
    IN (<<g.x>> \o <<g.y>>) \o <<IF g.infinity.v THEN 1 ELSE 0>>

AffineCurves ==
    { [q |-> 5, a |-> 2, b |-> 1, r |-> 7, h |-> 1],
      [q |-> 7, a |-> 0, b |-> 3, r |-> 13, h |-> 1] }

\* regs[1]: a constant point, or variables x, y, z under any assignment
InitAffine ==
    /\ curve \in AffineCurves
    /\ pc = "args"
    /\ regs \in ({t \in ValidVars : t.c} \cup [x : Fq, y : Fq, z : Fq, c : {FALSE}]) \X {zero}
    /\ out = NoOut
    /\ frame = NoFrame
    /\ sat = TRUE
    /\ emitted = FALSE

\* regs[1].to_affine(), the prover assigning z_inv to the witness "z_inverse"
CallToAffine ==
    /\ pc = "args"
    /\ \E z_inv \in Fq :
          LET g == to_affine_with(regs[1], z_inv)
          IN /\ out' = [op |-> "to_affine", g |-> g]
             /\ sat' = (sat /\ g.ok)
    /\ emitted' = ~regs[1].c
    /\ pc' = "returned"
    /\ UNCHANGED <<curve, regs, frame>>

\* regs[1].to_bits_le()
CallToBitsLe ==
    /\ pc = "args"
    /\ out' = [op |-> "to_bits_le", bits |-> to_bits_le(regs[1])]
    /\ sat' = (sat /\ to_affine(regs[1]).ok)
    /\ emitted' = ~regs[1].c
    /\ pc' = "returned"
    /\ UNCHANGED <<curve, regs, frame>>

\* regs[1].to_non_unique_bits_le(): the honest assignment is the canonical one
CallToNonUniqueBitsLe ==
    /\ pc = "args"
    /\ LET g == to_affine(regs[1])
           bits == FieldToBitsLE(g.x, regs[1].c)
           y_bits == FieldToBitsLE(g.y, regs[1].c)
       IN /\ out' = [op |-> "to_non_unique_bits_le", bits |-> Append(bits \o y_bits, g.infinity)]
          /\ sat' = (sat /\ g.ok)
    /\ emitted' = ~regs[1].c
    /\ pc' = "returned"
    /\ UNCHANGED <<curve, regs, frame>>

\* regs[1].to_bytes()
CallToBytes ==
    /\ pc = "args"
    /\ out' = [op |-> "to_bytes", bytes |-> to_bytes(regs[1])]
    /\ sat' = (sat /\ to_affine(regs[1]).ok)
    /\ emitted' = ~regs[1].c
    /\ pc' = "returned"
    /\ UNCHANGED <<curve, regs, frame>>

\* regs[1].to_non_unique_bytes(): the honest assignment is the canonical one
CallToNonUniqueBytes ==
    /\ pc = "args"
    /\ LET g == to_affine(regs[1])
           bytes == FieldToBytes(g.x)
           y_bytes == FieldToBytes(g.y)
           inf_bytes == BooleanToBytes(g.infinity)
       IN /\ out' = [op |-> "to_non_unique_bytes", bytes |-> (bytes \o y_bytes) \o inf_bytes]
          /\ sat' = (sat /\ g.ok)
    /\ emitted' = ~regs[1].c
    /\ pc' = "returned"
    /\ UNCHANGED <<curve, regs, frame>>

\* regs[1].to_constraint_field()
CallToConstraintField ==
    /\ pc = "args"
    /\ out' = [op |-> "to_constraint_field", elems |-> to_constraint_field(regs[1])]
    /\ sat' = (sat /\ to_affine(regs[1]).ok)
    /\ emitted' = ~regs[1].c
    /\ pc' = "returned"
    /\ UNCHANGED <<curve, regs, frame>>

NextAffine ==
    \/ CallToAffine
    \/ CallToBitsLe
    \/ CallToNonUniqueBitsLe
    \/ CallToBytes
    \/ CallToNonUniqueBytes
    \/ CallToConstraintField

SpecAffine == InitAffine /\ [][NextAffine]_vars

\* the quotient u / w in the base field, for w # 0
FDiv(u, w) == CHOOSE t \in Fq : FMul(t, w) = u

\* C14: in every satisfying assignment, whatever the prover gives z_inv,
\* to_affine of a variable triple is (x/z, y/z, false) when z # 0 and
\* (0, 1, true) when z = 0; a constant input gives the same values as constants
\* and emits no constraint.
C14_ToAffineBinding ==
    (pc = "returned" /\ out.op = "to_affine" /\ sat) =>
        /\ IF regs[1].z # 0
           THEN /\ out.g.x = FDiv(regs[1].x, regs[1].z)
                /\ out.g.y = FDiv(regs[1].y, regs[1].z)
                /\ ~out.g.infinity.v
           ELSE /\ out.g.x = 0
                /\ out.g.y = 1
                /\ out.g.infinity.v
        /\ out.g.infinity.c = regs[1].c
        /\ regs[1].c => ~emitted

\* C14 witness: a variable with z outside {0, 1} converted under a satisfying
\* assignment
C14_Witness ==
    /\ pc = "returned" /\ out.op = "to_affine" /\ sat
    /\ ~regs[1].c /\ regs[1].z \notin {0, 1}
    /\ regs[1].x # 0
    /\ out.g.x # regs[1].x

\* the integer sum of byte_i * 2^(8 i)
RECURSIVE BytesValue(_)
BytesValue(bytes) ==
    IF bytes = <<>> THEN 0 ELSE Head(bytes) + (2 ^ ByteBits) * BytesValue(Tail(bytes))

\* a serialization operation returned
Serialized ==
    pc = "returned" /\ out.op \in {"to_bits_le", "to_non_unique_bits_le", "to_bytes",
                                  "to_non_unique_bytes", "to_constraint_field"}

\* C17: the serializations hold the affine x first, then the affine y, then
\* is_infinity last; they depend on the group element only, and the identity
\* gives x = 0, y = 1, is_infinity = true.
C17_SerializationOrder ==
    Serialized =>
        LET g == value(regs[1])
            n == base_modulus_bits
            m == (n + ByteBits - 1) \div ByteBits
        IN /\ sat
           /\ out.op \in {"to_bits_le", "to_non_unique_bits_le"} =>
                 /\ Len(out.bits) = 2 * n + 1
                 /\ BitsValue(SubSeq(out.bits, 1, n)) = g.x
                 /\ BitsValue(SubSeq(out.bits, n + 1, 2 * n)) = g.y
                 /\ out.bits[2 * n + 1].v = g.infinity
           /\ out.op \in {"to_bytes", "to_non_unique_bytes"} =>
                 /\ Len(out.bytes) = 2 * m + 1
                 /\ BytesValue(SubSeq(out.bytes, 1, m)) = g.x
                 /\ BytesValue(SubSeq(out.bytes, m + 1, 2 * m)) = g.y
                 /\ out.bytes[2 * m + 1] = (IF g.infinity THEN 1 ELSE 0)
           /\ out.op = "to_constraint_field" =>
                 out.elems = <<g.x, g.y, IF g.infinity THEN 1 ELSE 0>>
           /\ regs[1].z = 0 => (g.x = 0 /\ g.y = 1 /\ g.infinity)

\* C17 witness: the bits of a non-canonical representative of a finite point
\* whose affine coordinates differ from each other and from x and y
C17_Witness ==
    /\ Serialized /\ out.op = "to_bits_le"
    /\ ~regs[1].c /\ regs[1].z \notin {0, 1}
    /\ value(regs[1]).x # value(regs[1]).y
    /\ value(regs[1]).x # regs[1].x
    /\ BitsValue(SubSeq(out.bits, 1, base_modulus_bits)) = value(regs[1]).x

----------------------------------------------------------------------------
(* Allocation with a value closure that may fail *)

\* the kinds of SynthesisError
SynthesisErrors ==
    {"MissingCS", "AssignmentMissing", "DivisionByZero", "Unsatisfiable",
     "PolynomialDegreeTooLarge", "UnexpectedIdentity", "IoError",
     "MalformedVerifyingKey", "UnconstrainedVariable"}

Ok(val) == [ok |-> TRUE, val |-> val]
Err(e) == [ok |-> FALSE, err |-> e]

\* Ok of variables that hold no assignment
OkUnassigned == [ok |-> TRUE]

\* BFVar::new_variable(cs, || v, mode) for the three coordinates, v the Result
\* handed to each: a constant evaluates its closure; an input or a witness
\* evaluates it unless the constraint system is in setup mode.
new_field_variables(v, mode, setup) ==
    IF v.ok THEN v
    ELSE IF mode # "Constant" /\ setup THEN OkUnassigned
    ELSE v

\* new_variable_omit_on_curve_check(cs, f, mode), res the Result of f()
new_variable_omit_on_curve_check_result(res, mode, setup) ==
    LET xyz == IF res.ok
               THEN Ok(new_variable_omit_on_curve_check(res.val, mode))
               ELSE Err("AssignmentMissing")
    IN new_field_variables(xyz, mode, setup)

ErrCurves == {[q |-> 5, a |-> 2, b |-> 1, r |-> 7, h |-> 1]}

\* frame.f: what the closure returns; frame.setup: the constraint system is in
\* setup mode and evaluates no assignment
InitErr ==
    /\ curve \in ErrCurves
    /\ pc = "alloc"
    /\ regs = <<zero, zero>>
    /\ out = NoOut
    /\ frame \in [f : {Ok(g) : g \in NativeValues} \cup {Err(e) : e \in SynthesisErrors},
                  mode : Modes, setup : BOOLEAN]
    /\ sat = TRUE
    /\ emitted = FALSE

\* ProjectiveVar::new_variable_omit_on_curve_check(cs, f, mode)
CallOmitOnCurveCheckResult ==
    /\ pc = "alloc"
    /\ out' = [op |-> "new_variable_omit_on_curve_check",
               result |-> new_variable_omit_on_curve_check_result(frame.f, frame.mode, frame.setup)]
    /\ pc' = "returned"
    /\ UNCHANGED <<curve, regs, frame, sat, emitted>>

\* ProjectiveVar::new_variable_omit_prime_order_check(cs, f, mode): the error of
\* the allocation is returned by ?, otherwise the on-curve check is emitted
CallOmitPrimeOrderCheckResult ==
    /\ pc = "alloc"
    /\ LET g == new_variable_omit_on_curve_check_result(frame.f, frame.mode, frame.setup)
       IN /\ out' = [op |-> "new_variable_omit_prime_order_check", result |-> g]
          /\ emitted' = (g.ok /\ frame.mode # "Constant")
          /\ sat' = (sat /\ ((g.ok /\ frame.mode # "Constant" /\ "val" \in DOMAIN g)
                               => on_curve_check(g.val)))
    /\ pc' = "returned"
    /\ UNCHANGED <<curve, regs, frame>>

NextErr == CallOmitOnCurveCheckResult \/ CallOmitPrimeOrderCheckResult

SpecErr == InitErr /\ [][NextErr]_vars

\* C15: when the value closure fails with an error, the allocation returns that
\* same error to the caller.
C15_ErrorsUnchanged ==
    (pc = "returned" /\ ~frame.f.ok) => out.result = frame.f

----------------------------------------------------------------------------
(* Properties of precomputed_base_scalar_mul_le *)

\* C16: precomputed_base_scalar_mul_le leaves in self the multiple of the first
\* base by the integer of the bits, whatever the other bases and whatever self
\* held before.
C16_PrecomputedBaseFirst ==
    pc = "done" =>
        /\ value(regs[1]) = NativeMul(BitsValue(frame.bits), frame.caller.bases[1])
        /\ sat

\* C16 witness: other bases and a previous self that differ from the first base,
\* and a product differing from all of them
C16_Witness ==
    /\ pc = "done"
    /\ Len(frame.bits) >= 3
    /\ frame.caller.bases[2] # frame.caller.bases[1]
    /\ ~frame.caller.bases[2].infinity
    /\ value(frame.caller.self) \notin {frame.caller.bases[1], NativeZero}
    /\ value(regs[1]) \notin {frame.caller.bases[1], frame.caller.bases[2],
                              value(frame.caller.self), NativeZero}

----------------------------------------------------------------------------
(* PairingGadget: the provided methods over the required ones *)

\* longest slice of prepared elements passed to product_of_pairings_gadget
MaxPairs == 2

\* values of G1PreparedVar and of G2PreparedVar
G1PreparedVars == {"p1", "p2", "p3"}
G2PreparedVars == {"q1", "q2"}

\* the errors an implementation's required method may return, or "none"
GadgetOutcomes == {"none", "AssignmentMissing", "Unsatisfiable"}

\* the required method miller_loop_gadget of the implementing engine: an
\* element of GTVar determined by the arguments, or the error the engine raises
miller_loop_gadget(p, q) ==
    IF frame.miller_loop = "none"
    THEN Ok([miller_loop |-> <<p, q>>])
    ELSE Err(frame.miller_loop)

\* the required method final_exponentiation_gadget of the implementing engine
final_exponentiation_gadget(p) ==
    IF frame.final_exponentiation = "none"
    THEN Ok([final_exponentiation |-> p])
    ELSE Err(frame.final_exponentiation)

\* mutant: the final exponentiation run on the error path as well
pairing_gadget_no_early_return(p, q) ==
    LET tmp == miller_loop_gadget(<<p>>, <<q>>)
    IN [result |-> IF tmp.ok THEN final_exponentiation_gadget(tmp.val) ELSE tmp,
        calls |-> <<"miller_loop_gadget", "final_exponentiation_gadget">>]

\* pairing_gadget: the result and the required methods that ran
pairing_gadget(p, q) ==
    LET tmp == miller_loop_gadget(<<p>>, <<q>>)
    IN IF ~tmp.ok
       THEN [result |-> tmp, calls |-> <<"miller_loop_gadget">>]
       ELSE [result |-> final_exponentiation_gadget(tmp.val),
             calls |-> <<"miller_loop_gadget", "final_exponentiation_gadget">>]

\* product_of_pairings_gadget: the result and the required methods that ran
product_of_pairings_gadget(p, q) ==
    LET miller_result == miller_loop_gadget(p, q)
    IN IF ~miller_result.ok
       THEN [result |-> miller_result, calls |-> <<"miller_loop_gadget">>]
       ELSE [result |-> final_exponentiation_gadget(miller_result.val),
             calls |-> <<"miller_loop_gadget", "final_exponentiation_gadget">>]

PreparedSlices(S) == UNION { [1 .. n -> S] : n \in 0 .. MaxPairs }

InitPairing ==
    /\ curve \in ErrCurves
    /\ pc = "args"
    /\ regs = <<zero, zero>>
    /\ out = NoOut
    /\ frame \in [p : PreparedSlices(G1PreparedVars), q : PreparedSlices(G2PreparedVars),
                  miller_loop : GadgetOutcomes, final_exponentiation : GadgetOutcomes]
    /\ sat = TRUE
    /\ emitted = FALSE

\* E::pairing_gadget(p, q) on one element of each group
CallPairingGadget ==
    /\ pc = "args"
    /\ frame.p # <<>> /\ frame.q # <<>>
    /\ LET ran == pairing_gadget(frame.p[1], frame.q[1])
       IN out' = [op |-> "pairing_gadget", result |-> ran.result, calls |-> ran.calls]
    /\ pc' = "returned"
    /\ UNCHANGED <<curve, regs, frame, sat, emitted>>

\* E::product_of_pairings_gadget(&p, &q)
CallProductOfPairingsGadget ==
    /\ pc = "args"
    /\ LET ran == product_of_pairings_gadget(frame.p, frame.q)
       IN out' = [op |-> "product_of_pairings_gadget", result |-> ran.result,
                  calls |-> ran.calls]
    /\ pc' = "returned"
    /\ UNCHANGED <<curve, regs, frame, sat, emitted>>

NextPairing == CallPairingGadget \/ CallProductOfPairingsGadget

SpecPairing == InitPairing /\ [][NextPairing]_vars

\* C18: pairing_gadget(p, q) is the final exponentiation of the Miller loop of
\* [p] and [q], product_of_pairings_gadget(ps, qs) that of the Miller loop of ps
\* and qs; an error of the Miller loop is returned as it is and the final
\* exponentiation does not run.
C18_PairingComposition ==
    pc = "returned" =>
        LET ps == IF out.op = "pairing_gadget" THEN <<frame.p[1]>> ELSE frame.p
            qs == IF out.op = "pairing_gadget" THEN <<frame.q[1]>> ELSE frame.q
        IN IF frame.miller_loop # "none"
           THEN /\ out.result = [ok |-> FALSE, err |-> frame.miller_loop]
                /\ out.calls = <<"miller_loop_gadget">>
           ELSE /\ out.calls = <<"miller_loop_gadget", "final_exponentiation_gadget">>
                /\ IF frame.final_exponentiation # "none"
                   THEN out.result = [ok |-> FALSE, err |-> frame.final_exponentiation]
                   ELSE out.result =
                           [ok |-> TRUE,
                            val |-> [final_exponentiation |-> [miller_loop |-> <<ps, qs>>]]]

\* C18 witness: a pairing of one pair taken from longer slices, and a failing
\* Miller loop before a final exponentiation that would fail differently
C18_Witness ==
    /\ pc = "returned" /\ out.op = "pairing_gadget"
    /\ Len(frame.p) = 2 /\ Len(frame.q) = 2
    /\ frame.miller_loop = "Unsatisfiable"
    /\ frame.final_exponentiation = "AssignmentMissing"
    /\ out.result = [ok |-> FALSE, err |-> "Unsatisfiable"]

----------------------------------------------------------------------------
(* Properties of the affine prefix and of the chunks of fixed_scalar_mul_le *)

\* the native point held by a NonZeroAffineVar
AffineValue(p) == NativeNew(p.x, p.y)

\* the loop over affine_bits is about to run add_unchecked and the doubling for
\* bit frame.i of the chunk, self being a point of prime order
InPrefix ==
    /\ pc = "affine_bits"
    /\ frame.i < split_len
    /\ ~value(regs[1]).infinity
    /\ NativeMul(curve.r, value(regs[1])) = NativeZero

\* C19: at every add_unchecked(acc, Q_k) and doubling of the prefix, with Q the
\* power of the chunk, Q_k = 2^i Q and acc = k Q with k odd, 1 <= k < 2^i, the
\* bit index stays below s - 2, both are points of the curve, their x
\* coordinates differ and Q_k has y # 0: neither incomplete formula meets its
\* exceptional case and the constraints stay satisfied.
C19_PrefixSafety ==
    InPrefix =>
        LET i == frame.i
            Q == AffineValue(frame.seed)
            acc == AffineValue(frame.accumulator)
            Q_k == AffineValue(frame.multiple_of_power_of_two)
            k == 1 + 2 * BitsValue(SubSeq(frame.chunk, 2, i))
        IN /\ i >= 1 /\ i + 1 <= scalar_modulus_bits - 2
           /\ Len(frame.chunk) <= scalar_modulus_bits
           /\ Q = NativeMul(2 ^ frame.done, value(regs[1]))
           /\ Q_k = NativeMul(2 ^ i, Q)
           /\ k % 2 = 1 /\ 1 <= k /\ k < 2 ^ i
           /\ acc = NativeMul(k, Q)
           /\ NativeOnCurve(Q_k) /\ NativeOnCurve(acc)
           /\ acc.x # Q_k.x
           /\ Q_k.y # 0
           /\ add_unchecked(frame.accumulator, frame.multiple_of_power_of_two).ok
           /\ affine_double_in_place(frame.multiple_of_power_of_two).ok
           /\ sat

\* C19 witness: the second addition of a prefix, acc = 3 Q against Q_k = 4 Q,
\* on a variable point under a variable bit
C19_Witness ==
    /\ InPrefix
    /\ frame.i = 2
    /\ ~regs[1].c /\ ~frame.chunk[2].c /\ frame.chunk[2].v
    /\ AffineValue(frame.accumulator) = NativeMul(3, AffineValue(frame.seed))
    /\ AffineValue(frame.multiple_of_power_of_two) = NativeMul(4, AffineValue(frame.seed))

\* self is a point of prime order
PrimeOrderSelf ==
    ~value(regs[1]).infinity /\ NativeMul(curve.r, value(regs[1])) = NativeZero

\* fixed_scalar_mul_le has returned from a chunk
ChunkReturned == pc = "chunks" /\ frame.done > 0

\* C20: on return from a chunk of n bits the running power is 2^n times the
\* power on entry, itself 2^(bits before the chunk) P, and mul_result holds the
\* multiple of P by the integer of all the bits processed so far; scalar_mul_le
\* over any number of chunks returns (sum of b_i 2^i) P.
C20_ChunkChaining ==
    PrimeOrderSelf =>
        /\ ChunkReturned =>
              LET n == Len(frame.chunk)
                  entry == AffineValue(frame.seed)
                  processed == SubSeq(StripLeadingZeros(frame.bits), 1, frame.done)
              IN /\ n >= 1 /\ n <= scalar_modulus_bits
                 /\ entry = NativeMul(2 ^ (frame.done - n), value(regs[1]))
                 /\ AffineValue(frame.multiple_of_power_of_two) = NativeMul(2 ^ n, entry)
                 /\ value(frame.mul_result) = NativeMul(BitsValue(processed), value(regs[1]))
                 /\ sat
        /\ (pc = "returned" /\ out.op = "scalar_mul_le") =>
              /\ value(out.res) = NativeMul(BitsValue(frame.bits), value(regs[1]))
              /\ sat

\* C20 witness: a second chunk returned whose bits are all unset variables, its
\* contribution the identity, after a first chunk that contributed a multiple
C20_Witness ==
    /\ PrimeOrderSelf /\ ChunkReturned
    /\ frame.done > scalar_modulus_bits
    /\ Len(frame.chunk) >= 2
    /\ \A j \in 1 .. Len(frame.chunk) : ~frame.chunk[j].c /\ ~frame.chunk[j].v
    /\ ~value(frame.mul_result).infinity
    /\ AffineValue(frame.multiple_of_power_of_two)
          = NativeMul(2 ^ frame.done, value(regs[1]))

----------------------------------------------------------------------------
(* Properties of the special cases of Add for a constant operand *)

\* the call returned the sum of a variable and a constant, in either order
AddedConstant == pc = "returned" /\ out.op = "add" /\ regs[1].c # regs[2].c

\* the variable operand and the constant operand of the call
VariableOperand == IF regs[1].c THEN regs[2] ELSE regs[1]
ConstantOperand == IF regs[1].c THEN regs[1] ELSE regs[2]

\* two triples read as the same group element, and both or none are (0,0,0)
SameRepresented(s, t) ==
    /\ value(s) = value(t)
    /\ (s.x = 0 /\ s.y = 0 /\ s.z = 0) <=> (t.x = 0 /\ t.y = 0 /\ t.z = 0)

\* the result of the call is the one the special cases prescribe: the variable's
\* triple for the constant identity, mixed addition with the constant's affine
\* coordinates otherwise
FoldedAsPrescribed ==
    LET P == VariableOperand
        C == value(ConstantOperand)
    IN IF C.infinity
       THEN out.res = P
       ELSE out.res = add_mixed(P, C.x, C.y, TRUE)

\* C21 as stated: for a variable valid triple P and a constant C, P + C and
\* C + P represent the same group element as Algorithm 1 applied to P and C,
\* for all inputs; the result is P's triple when C is the identity and
\* add_mixed(P, (C.x, C.y)) otherwise.
C21_ConstantFoldingAllInputs ==
    AddedConstant =>
        /\ SameRepresented(out.res, add_complete(VariableOperand, ConstantOperand))
        /\ FoldedAsPrescribed

\* C21 amended: the result is P's triple when C is the identity and
\* add_mixed(P, (C.x, C.y)) otherwise; it represents the same group element as
\* Algorithm 1 applied to P and C, unless C is the identity and P is a point of
\* order 2, where the result is P and Algorithm 1 evaluates to (0,0,0).
C21_ConstantFolding ==
    AddedConstant =>
        LET P == VariableOperand
            C == ConstantOperand
            complete == add_complete(P, C)
        IN /\ FoldedAsPrescribed
           /\ IF value(C).infinity /\ OrderTwo(value(P))
              THEN /\ out.res = P
                   /\ complete.x = 0 /\ complete.y = 0 /\ complete.z = 0
              ELSE SameRepresented(out.res, complete)

\* C21 witness: a constant held as a non-canonical triple added on the left of
\* a variable finite point, the sum a finite point
C21_Witness ==
    /\ AddedConstant
    /\ regs[1].c /\ regs[1].z \notin {0, 1}
    /\ regs[2].z \notin {0, 1}
    /\ ~value(out.res).infinity
    /\ out.res = add_mixed(regs[2], value(regs[1]).x, value(regs[1]).y, TRUE)

====
